---------------------------- MODULE Spec2Model ----------------------------
(***************************************************************************)
(* Product catalog service (src/src/app.js): an Express application with   *)
(* GET /api/products (cache-aside read through Redis, key 'products') and  *)
(* POST /api/products (insert into MongoDB, then refresh of the cache),    *)
(* behind the middleware and next to GET /health and the 404 handler.      *)
(*                                                                         *)
(* Every request handler is an async function: between two awaits it runs  *)
(* atomically on the Node event loop, and at every await (a Redis command  *)
(* or a MongoDB operation) other handlers may run.  One action of this     *)
(* module is therefore "the awaited backend operation takes effect and the *)
(* handler continues up to its next await or its response".                *)
(***************************************************************************)
EXTENDS Integers, Sequences, FiniteSets, TLC

(***************************************************************************)
(* Bounds of the model.                                                    *)
(***************************************************************************)
\* the store holds at most this many products (inserts stop there)
MaxProducts == 2
\* the clock advances in steps of this many seconds
TickStep == 1800

(***************************************************************************)
(* Program constants.                                                      *)
(***************************************************************************)
\* redisClient.set(cacheKey, ..., { EX: 3600 })
TTL == 3600
\* error.code === 11000
DuplicateKeyCode == 11000

\* the concurrent request slots of the event loop
Procs == {"r1", "r2"}

(***************************************************************************)
(* JavaScript values.  A string is a sequence of one-character strings, so *)
(* that trim, Number() and parseFloat are computed and not assumed.        *)
(***************************************************************************)
JSUndefined == [t |-> "undefined", n |-> 0, s |-> << >>]
JSNull == [t |-> "null", n |-> 0, s |-> << >>]
JSNaN == [t |-> "NaN", n |-> 0, s |-> << >>]
JSNum(n) == [t |-> "number", n |-> n, s |-> << >>]
JSStr(s) == [t |-> "string", n |-> 0, s |-> s]
JSTrue == [t |-> "boolean", n |-> 1, s |-> << >>]

Digits == {"0", "1", "2", "3", "4", "5", "6", "7", "8", "9"}
WhiteSpace == {" "}

DigitVal(c) ==
    CASE c = "0" -> 0 [] c = "1" -> 1 [] c = "2" -> 2 [] c = "3" -> 3
      [] c = "4" -> 4 [] c = "5" -> 5 [] c = "6" -> 6 [] c = "7" -> 7
      [] c = "8" -> 8 [] c = "9" -> 9

RECURSIVE TrimStart(_)
TrimStart(s) ==
    IF s # << >> /\ Head(s) \in WhiteSpace THEN TrimStart(Tail(s)) ELSE s

RECURSIVE TrimEnd(_)
TrimEnd(s) ==
    IF s # << >> /\ s[Len(s)] \in WhiteSpace
    THEN TrimEnd(SubSeq(s, 1, Len(s) - 1))
    ELSE s

\* String.prototype.trim
Trim(s) == TrimEnd(TrimStart(s))

\* the longest prefix of s made of decimal digits
RECURSIVE DigitPrefix(_)
DigitPrefix(s) ==
    IF s # << >> /\ Head(s) \in Digits
    THEN << Head(s) >> \o DigitPrefix(Tail(s))
    ELSE << >>

\* the value of a non-empty sequence of decimal digits
RECURSIVE DigitsValue(_)
DigitsValue(s) ==
    IF s = << >> THEN 0
    ELSE 10 * DigitsValue(SubSeq(s, 1, Len(s) - 1)) + DigitVal(s[Len(s)])

\* s without a leading sign
Unsigned(s) == IF s # << >> /\ Head(s) \in {"-", "+"} THEN Tail(s) ELSE s
SignOf(s) == IF s # << >> /\ Head(s) = "-" THEN -1 ELSE 1

\* Number(string): the whole trimmed string must be a numeric literal;
\* the empty (or all-blank) string is 0
StringToNumber(s) ==
    LET t == Trim(s)
        u == Unsigned(t)
    IN  IF t = << >> THEN JSNum(0)
        ELSE IF u # << >> /\ DigitPrefix(u) = u
             THEN JSNum(SignOf(t) * DigitsValue(u))
             ELSE JSNaN

\* ToNumber, as applied by isNaN(v) and by v < 0
ToNumber(v) ==
    CASE v.t = "number" -> v
      [] v.t = "NaN" -> JSNaN
      [] v.t = "string" -> StringToNumber(v.s)
      [] v.t = "boolean" -> JSNum(v.n)
      [] v.t = "null" -> JSNum(0)
      [] v.t = "undefined" -> JSNaN

\* the truthiness used by !name, !price and description ? ... : ...
Truthy(v) ==
    CASE v.t = "number" -> v.n # 0
      [] v.t = "NaN" -> FALSE
      [] v.t = "string" -> v.s # << >>
      [] v.t = "boolean" -> v.n = 1
      [] v.t = "null" -> FALSE
      [] v.t = "undefined" -> FALSE

\* isNaN(price)
IsNaN(v) == ToNumber(v).t = "NaN"

\* price < 0 (a comparison with NaN is false)
LessThanZero(v) == ToNumber(v).t = "number" /\ ToNumber(v).n < 0

\* String(v) for the values parseFloat is given
ToJSString(v) ==
    CASE v.t = "string" -> v.s
      [] v.t = "boolean" -> IF v.n = 1 THEN << "t", "r", "u", "e" >>
                                       ELSE << "f", "a", "l", "s", "e" >>
      [] v.t = "null" -> << "n", "u", "l", "l" >>
      [] v.t = "undefined" -> << "u", "n", "d", "e", "f", "i", "n", "e", "d" >>
      [] v.t = "NaN" -> << "N", "a", "N" >>

\* parseFloat(price): the longest numeric prefix after leading blanks
ParseFloat(v) ==
    IF v.t = "number" THEN v
    ELSE LET t == TrimStart(ToJSString(v))
             d == DigitPrefix(Unsigned(t))
         IN  IF d = << >> THEN JSNaN ELSE JSNum(SignOf(t) * DigitsValue(d))


(***************************************************************************)
(* Documents and JSON.  A mongoose document carries an ObjectId; its JSON  *)
(* form carries the id's string.  JSON.stringify and JSON.parse convert    *)
(* between documents, JSON text and plain objects.                         *)
(***************************************************************************)
Doc(id, name, price, description) ==
    [_id |-> [oid |-> id], name |-> name, price |-> price,
     description |-> description]

NoDoc == Doc(0, << >>, 0, << >>)

\* the toJSON form of one document
ToJSON(d) ==
    [_id |-> d._id.oid, name |-> d.name, price |-> d.price,
     description |-> d.description]

\* a text: the list it spells, and its form: the full JSON text of the
\* list ("full"), that text without its end ("cut"), or the empty string
\* JSON.stringify(products) of a list of documents
JSONStringify(docs) ==
    [json |-> [i \in 1..Len(docs) |-> ToJSON(docs[i])], form |-> "full"]

\* if (cachedProducts): a string is truthy unless it is empty
TruthyText(text) == text.form # "empty"

\* JSON.parse(cachedProducts) returns (it throws a SyntaxError otherwise)
Parses(text) == text.form = "full"

\* JSON.parse(cachedProducts): the list of plain objects of a JSON text
JSONParse(text) == text.json

\* res.json's serialisation of a list of plain objects
StringifyPlain(objs) == [json |-> objs, form |-> "full"]

NoText == [json |-> << >>, form |-> "full"]

\* Product.find({}) on a reachable store: every document, in store order
Find(docs) == docs

(***************************************************************************)
(* Request bodies of POST /api/products.                                   *)
(***************************************************************************)
Body(name, price, description) ==
    [name |-> name, price |-> price, description |-> description]

NoBody == Body(JSUndefined, JSUndefined, JSUndefined)

W == << "W" >>

\* the bodies of the requests that run concurrently
MainBodies ==
    { Body(JSStr(W), JSNum(5), JSUndefined),
      Body(JSStr(W), JSNum(0), JSUndefined),
      Body(JSNum(5), JSNum(5), JSUndefined) }

\* the bodies a single request is tried on
Bodies ==
    { Body(JSStr(W), JSNum(5), JSUndefined),
      Body(JSStr(<< " ", "W", " " >>), JSStr(<< "5" >>), JSStr(<< " ", "d" >>)),
      Body(JSStr(W), JSNum(0), JSUndefined),
      Body(JSStr(W), JSStr(<< "0" >>), JSUndefined),
      Body(JSStr(<< >>), JSNum(5), JSUndefined),
      Body(JSUndefined, JSNum(5), JSUndefined),
      Body(JSStr(W), JSUndefined, JSUndefined),
      Body(JSStr(W), JSNull, JSUndefined),
      Body(JSStr(W), JSNum(-1), JSUndefined),
      Body(JSStr(W), JSStr(<< "-", "1" >>), JSUndefined),
      Body(JSStr(W), JSStr(<< "a", "b", "c" >>), JSUndefined),
      Body(JSStr(W), JSStr(<< "5", "a" >>), JSUndefined),
      Body(JSStr(W), JSStr(<< >>), JSUndefined),
      Body(JSStr(W), JSStr(<< " " >>), JSUndefined),
      Body(JSStr(W), JSTrue, JSUndefined),
      Body(JSStr(<< " " >>), JSNum(5), JSUndefined),
      Body(JSNum(5), JSNum(5), JSUndefined),
      Body(JSNum(5), JSNum(-1), JSUndefined),
      Body(JSStr(W), JSNum(5), JSNum(7)) }

(***************************************************************************)
(* State.                                                                  *)
(***************************************************************************)
VARIABLES
    server,        \* where startServer is
    mongoConnected, \* mongoose.connect has resolved
    exit,          \* the codes process.exit was called with
    env,           \* process.env
    redisClient,   \* the module-level handle: "undefined", "null" or "client"
    redisReady,    \* redisClient.isReady
    store,         \* the products collection, in insertion order
    cache,         \* the Redis entry under the key 'products'
    req,           \* per request slot: the handler's locals and its response
    acked          \* history: ids created by a POST that answered 201 after
                   \* its cache refresh succeeded

vars == << server, mongoConnected, exit, env, redisClient,
          redisReady, store, cache, req, acked >>

\* the values REDIS_PASSWORD is given
Passwords == {"hunter2", "swordfish"}

Env(password) == [REDIS_PASSWORD |-> password]

DefaultEnv == Env("hunter2")

\* the entry: its value, the seconds it has left, and (history) the store
\* contents at the moment of the query whose result was written
NoEntry == [present |-> FALSE, text |-> NoText, ttl |-> 0, src |-> << >>]

Entry(text, src) == [present |-> TRUE, text |-> text, ttl |-> TTL, src |-> src]

\* the value of a local that holds the reply of redisClient.get
NoValue == [present |-> FALSE, text |-> NoText]

Value(text) == [present |-> TRUE, text |-> text]

NoNew == [name |-> << >>, price |-> JSNum(0), description |-> << >>]

\* request paths, as their lists of segments: '/health' and '/api/products'
HealthPath == << "health" >>
ProductsPath == << "api", "products" >>

\* an error object: error.name, error.code, error.message
Err(name, code, message) == [name |-> name, code |-> code, message |-> message]

NoError == Err("", 0, "")

\* the errors the awaited operations and the handlers' own code throw
MongoNetworkError == Err("MongoNetworkError", 0, "connection closed")
DuplicateKeyError ==
    Err("MongoServerError", DuplicateKeyCode, "E11000 duplicate key error")
CastValidationError ==
    Err("ValidationError", 0, "Product validation failed: price")
TrimTypeError == Err("TypeError", 0, "trim is not a function")
JSONSyntaxError == Err("SyntaxError", 0, "Unexpected end of JSON input")

\* a request slot with no request in it
InitReq ==
    [pc |-> "idle", kind |-> "none", method |-> "", url |-> << >>,
     parsed |-> TRUE, body |-> NoBody,
     cachedProducts |-> NoValue, products |-> << >>, newProduct |-> NoNew,
     savedProduct |-> NoDoc,
     \* the lines the GET handler wrote with console.log / console.error
     log |-> << >>,
     \* the response; success is FALSE too while there is no response and
     \* in a body without that field; responses counts the responses sent
     responses |-> 0,
     status |-> 0, success |-> FALSE, data |-> NoText, message |-> "",
     error |-> "",
     \* history of the request: the way it took ("unreachable", "hit",
     \* "miss", "error" for a GET; "norefresh", "rereadFailed", "setFailed",
     \* "refreshed" for a POST that inserted), its backend operations, the
     \* store contents at its query (seen), and for a GET the ids that had
     \* been acknowledged when it started (mustSee), the error of its
     \* failed store operation (storeError) and the error its outer catch
     \* block received (caught)
     path |-> "none", storeReads |-> 0, storeWrites |-> 0, cacheWrites |-> 0,
     written |-> NoValue, storeFailed |-> FALSE, cacheFailed |-> FALSE,
     seen |-> << >>, mustSee |-> {},
     storeError |-> NoError, caught |-> NoError]

Init ==
    /\ server = "starting"
    /\ mongoConnected = FALSE
    /\ exit = << >>
    /\ env = DefaultEnv
    /\ redisClient = "undefined"
    /\ redisReady = FALSE
    /\ store = << >>
    /\ cache = NoEntry
    /\ req = [p \in Procs |-> InitReq]
    /\ acked = {}


(***************************************************************************)
(* Helpers of the handlers.                                                *)
(***************************************************************************)
\* redisClient && redisClient.isReady
RedisUsable == redisClient = "client" /\ redisReady

\* the outcomes of one Redis command: it can succeed only while the
\* connection is ready, and it can always fail (TRUE: the reply arrives)
RedisOutcomes == IF redisReady THEN {TRUE, FALSE} ELSE {FALSE}

\* res.status(status).json(...): the handlers send two bodies,
\* {success: true, data, message} and {success: false, error}
Respond(r, status, data, message, error) ==
    [r EXCEPT !.pc = "done", !.responses = @ + 1, !.status = status,
              !.success = (error = ""),
              !.data = data, !.message = message, !.error = error]

\* the lines the GET handler logs at its entry: a greeting, and the value
\* of process.env.REDIS_PASSWORD; without a usable Redis the handler goes
\* on to the else branch of line 132 at once
EntryLog(e, usable) ==
    << "Getting products!", e.REDIS_PASSWORD >>
        \o (IF usable THEN << >> ELSE << "Cache Miss or Redis unavailable" >>)

\* the catch block of the GET handler
GetCatch(r, err) ==
    Respond([r EXCEPT !.caught = err,
                      !.log = Append(@, "Error fetching products")],
            500, NoText, "", err.message)

\* PostErrorStatus with the bug "duplicates not told apart": the test of
\* error.code is missing
PostErrorStatusNoConflict(errName, errCode) ==
    IF errName = "ValidationError" THEN 400
    ELSE 500

\* the catch block of the POST handler: the status of a thrown error
PostErrorStatus(errName, errCode) ==
    IF errName = "ValidationError" THEN 400
    ELSE IF errCode = DuplicateKeyCode THEN 409
    ELSE 500

\* the catch block of the POST handler
PostCatch(r, err) ==
    Respond([r EXCEPT !.caught = err],
            PostErrorStatus(err.name, err.code), NoText, "",
            IF err.name = "ValidationError"
            THEN "Validation error: " \o err.message
            ELSE IF err.code = DuplicateKeyCode
            THEN "Product with this name already exists"
            ELSE err.message)

(***************************************************************************)
(* startServer: connectMongoDB, then connectRedis, then app.listen.        *)
(***************************************************************************)
\* ConnectMongoDB with the bug "continue without the store": a rejected
\* mongoose.connect is logged and startServer goes on
ConnectMongoDBContinues ==
    /\ server = "starting"
    /\ \E ok \in BOOLEAN :
          /\ server' = "mongoConnected"
          /\ mongoConnected' = ok
          /\ exit' = exit
    /\ UNCHANGED << env, redisClient, redisReady, store, cache, req, acked >>

\* connectMongoDB: mongoose.connect resolves, or it rejects and the catch
\* block calls process.exit(1)
ConnectMongoDB ==
    /\ server = "starting"
    /\ \E ok \in BOOLEAN :
          /\ server' = IF ok THEN "mongoConnected" ELSE "exited"
          /\ mongoConnected' = ok
          /\ exit' = IF ok THEN exit ELSE Append(exit, 1)
    /\ UNCHANGED << env, redisClient, redisReady, store, cache, req, acked >>

\* ConnectRedis with the bug "no cache, no server": a rejected
\* client.connect ends the process
ConnectRedisExits ==
    /\ server = "mongoConnected"
    /\ \E ok \in BOOLEAN :
          /\ redisClient' = IF ok THEN "client" ELSE "null"
          /\ redisReady' = ok
          /\ server' = IF ok THEN "listening" ELSE "exited"
          /\ exit' = IF ok THEN exit ELSE Append(exit, 1)
    /\ UNCHANGED << mongoConnected, env, store, cache, req, acked >>

\* connectRedis: client.connect resolves or rejects (redisClient = null),
\* and then app.listen
ConnectRedis ==
    /\ server = "mongoConnected"
    /\ \E ok \in BOOLEAN :
          /\ redisClient' = IF ok THEN "client" ELSE "null"
          /\ redisReady' = ok
    /\ server' = "listening"
    /\ UNCHANGED << mongoConnected, exit, env, store, cache, req, acked >>

(***************************************************************************)
(* The environment: the Redis connection drops and comes back, time        *)
(* passes (the entry expires TTL seconds after its write), and Redis       *)
(* evicts keys under memory pressure (maxmemory-policy allkeys-lru).       *)
(***************************************************************************)
RedisDisconnect ==
    /\ redisClient = "client" /\ redisReady
    /\ redisReady' = FALSE
    /\ UNCHANGED << server, mongoConnected, exit, env,
                    redisClient, store, cache, req, acked >>

RedisReconnect ==
    /\ redisClient = "client" /\ ~redisReady
    /\ redisReady' = TRUE
    /\ UNCHANGED << server, mongoConnected, exit, env,
                    redisClient, store, cache, req, acked >>

Tick ==
    /\ cache.present
    /\ cache' = IF cache.ttl > TickStep
                THEN [cache EXCEPT !.ttl = @ - TickStep]
                ELSE NoEntry
    /\ UNCHANGED << server, mongoConnected, exit, env,
                    redisClient, redisReady, store, req, acked >>

RedisEvict ==
    /\ cache.present
    /\ cache' = NoEntry
    /\ UNCHANGED << server, mongoConnected, exit, env,
                    redisClient, redisReady, store, req, acked >>

(***************************************************************************)
(* GET /api/products                                                       *)
(***************************************************************************)
\* GetStart with the bug "no cache, no answer": an unusable Redis fails the
\* request instead of sending it to the store
GetStartFailClosed(p) ==
    /\ server = "listening"
    /\ req[p].pc = "idle"
    /\ req' = [req EXCEPT ![p] =
                 IF RedisUsable
                 THEN [InitReq EXCEPT !.kind = "GET", !.method = "GET",
                                 !.url = ProductsPath, !.pc = "g_cacheGet",
                                      !.mustSee = acked]
                 ELSE Respond([InitReq EXCEPT !.kind = "GET", !.method = "GET",
                                 !.url = ProductsPath,
                                              !.path = "unreachable",
                                              !.mustSee = acked],
                              500, NoText, "", "Redis unavailable")]
    /\ UNCHANGED << server, mongoConnected, exit, env,
                    redisClient, redisReady, store, cache, acked >>

\* the handler is entered: redisClient.get is issued if Redis is usable,
\* Product.find({}) otherwise
GetStart(p) ==
    /\ server = "listening"
    /\ req[p].pc = "idle"
    /\ req' = [req EXCEPT ![p] =
                 [InitReq EXCEPT !.kind = "GET", !.method = "GET",
                                 !.url = ProductsPath,
                                 !.pc = IF RedisUsable THEN "g_cacheGet"
                                        ELSE "g_find",
                                 !.path = IF RedisUsable THEN "none"
                                          ELSE "unreachable",
                                 !.log = EntryLog(env, RedisUsable),
                                 !.mustSee = acked]]
    /\ UNCHANGED << server, mongoConnected, exit, env,
                    redisClient, redisReady, store, cache, acked >>

\* GetCacheGet with the bug "hit not returned": the cached value is read
\* but the handler goes on to the store
GetCacheGetNoReturn(p) ==
    /\ req[p].pc = "g_cacheGet"
    /\ \E ok \in RedisOutcomes :
          req' = [req EXCEPT ![p] =
            IF ok /\ cache.present
            THEN [@ EXCEPT !.cachedProducts = Value(cache.text),
                           !.path = "hit", !.pc = "g_find"]
            ELSE IF ok
            THEN [@ EXCEPT !.pc = "g_find", !.path = "miss"]
            ELSE [@ EXCEPT !.pc = "g_find", !.path = "error",
                           !.cacheFailed = TRUE]]
    /\ UNCHANGED << server, mongoConnected, exit, env,
                    redisClient, redisReady, store, cache, acked >>

\* GetCacheGet with the bug "read error not caught": a failing
\* redisClient.get reaches the outer catch and the request ends with 500
GetCacheGetFailClosed(p) ==
    /\ req[p].pc = "g_cacheGet"
    /\ \E ok \in RedisOutcomes :
          req' = [req EXCEPT ![p] =
            IF ok /\ cache.present
            THEN LET r == [@ EXCEPT !.cachedProducts = Value(cache.text),
                                    !.path = "hit"]
                 IN  Respond(r, 200,
                             StringifyPlain(JSONParse(r.cachedProducts.text)),
                             "Products retrieved from cache", "")
            ELSE IF ok
            THEN [@ EXCEPT !.pc = "g_find", !.path = "miss"]
            ELSE Respond([@ EXCEPT !.path = "error", !.cacheFailed = TRUE],
                         500, NoText, "", "Redis get error")]
    /\ UNCHANGED << server, mongoConnected, exit, env,
                    redisClient, redisReady, store, cache, acked >>

\* GetCacheGet with the bug "sliding expiry": a read that finds the entry
\* renews its time to live
GetCacheGetTouching(p) ==
    /\ req[p].pc = "g_cacheGet"
    /\ \E ok \in RedisOutcomes :
          req' = [req EXCEPT ![p] =
            IF ok /\ cache.present /\ TruthyText(cache.text)
            THEN LET r == [@ EXCEPT !.cachedProducts = Value(cache.text),
                                    !.path = "hit",
                                    !.log = Append(@, "Cache Hit")]
                 IN  IF Parses(r.cachedProducts.text)
                     THEN Respond(r, 200,
                             StringifyPlain(JSONParse(r.cachedProducts.text)),
                             "Products retrieved from cache", "")
                     ELSE GetCatch(r, JSONSyntaxError)
            ELSE IF ok /\ cache.present
            THEN [@ EXCEPT !.cachedProducts = Value(cache.text),
                           !.pc = "g_find", !.path = "miss",
                           !.log = Append(@, "Cache Miss or Redis unavailable")]
            ELSE IF ok
            THEN [@ EXCEPT !.pc = "g_find", !.path = "miss",
                           !.log = Append(@, "Cache Miss or Redis unavailable")]
            ELSE [@ EXCEPT !.pc = "g_find", !.path = "error",
                           !.cacheFailed = TRUE,
                           !.log = @ \o << "Redis get error",
                                           "Cache Miss or Redis unavailable" >>]]
    /\ cache' = IF req'[p].path = "hit" THEN [cache EXCEPT !.ttl = TTL]
                ELSE cache
    /\ UNCHANGED << server, mongoConnected, exit, env,
                    redisClient, redisReady, store, acked >>


\* GetCacheGet with the bug "answer without return": a hit is answered
\* from the cache and the handler falls through to the store query
GetCacheGetFallsThrough(p) ==
    /\ req[p].pc = "g_cacheGet"
    /\ \E ok \in RedisOutcomes :
          req' = [req EXCEPT ![p] =
            IF ok /\ cache.present /\ TruthyText(cache.text)
            THEN LET r == [@ EXCEPT !.cachedProducts = Value(cache.text),
                                    !.path = "hit",
                                    !.log = Append(@, "Cache Hit")]
                 IN  IF Parses(r.cachedProducts.text)
                     THEN [Respond(r, 200,
                             StringifyPlain(JSONParse(r.cachedProducts.text)),
                             "Products retrieved from cache", "")
                             EXCEPT !.pc = "g_find"]
                     ELSE GetCatch(r, JSONSyntaxError)
            ELSE IF ok /\ cache.present
            THEN [@ EXCEPT !.cachedProducts = Value(cache.text),
                           !.pc = "g_find", !.path = "miss",
                           !.log = Append(@, "Cache Miss or Redis unavailable")]
            ELSE IF ok
            THEN [@ EXCEPT !.pc = "g_find", !.path = "miss",
                           !.log = Append(@, "Cache Miss or Redis unavailable")]
            ELSE [@ EXCEPT !.pc = "g_find", !.path = "error",
                           !.cacheFailed = TRUE,
                           !.log = @ \o << "Redis get error",
                                           "Cache Miss or Redis unavailable" >>]]
    /\ UNCHANGED << server, mongoConnected, exit, env,
                    redisClient, redisReady, store, cache, acked >>


\* redisClient.get(cacheKey) completes; a hit is answered from the cache,
\* and a value JSON.parse throws on sends the request to the outer catch
GetCacheGet(p) ==
    /\ req[p].pc = "g_cacheGet"
    /\ \E ok \in RedisOutcomes :
          req' = [req EXCEPT ![p] =
            IF ok /\ cache.present /\ TruthyText(cache.text)
            THEN LET r == [@ EXCEPT !.cachedProducts = Value(cache.text),
                                    !.path = "hit",
                                    !.log = Append(@, "Cache Hit")]
                 IN  IF Parses(r.cachedProducts.text)
                     THEN Respond(r, 200,
                             StringifyPlain(JSONParse(r.cachedProducts.text)),
                             "Products retrieved from cache", "")
                     ELSE GetCatch(r, JSONSyntaxError)
            ELSE IF ok /\ cache.present
            THEN [@ EXCEPT !.cachedProducts = Value(cache.text),
                           !.pc = "g_find", !.path = "miss",
                           !.log = Append(@, "Cache Miss or Redis unavailable")]
            ELSE IF ok
            THEN [@ EXCEPT !.pc = "g_find", !.path = "miss",
                           !.log = Append(@, "Cache Miss or Redis unavailable")]
            ELSE [@ EXCEPT !.pc = "g_find", !.path = "error",
                           !.cacheFailed = TRUE,
                           !.log = @ \o << "Redis get error",
                                           "Cache Miss or Redis unavailable" >>]]
    /\ UNCHANGED << server, mongoConnected, exit, env,
                    redisClient, redisReady, store, cache, acked >>

\* GetFind with the bug "wrong tag": the list read from the store is sent
\* with the message of the cache path
GetFindMislabelled(p) ==
    /\ req[p].pc = "g_find"
    /\ \E ok \in BOOLEAN :
          IF ok
          THEN /\ req' = [req EXCEPT ![p] =
                    LET r == [@ EXCEPT !.products = Find(store),
                                       !.seen = store,
                                       !.storeReads = @ + 1]
                    IN  IF RedisUsable /\ Len(r.products) > 0
                        THEN [r EXCEPT !.pc = "g_cacheSet"]
                        ELSE Respond(r, 200, JSONStringify(r.products),
                                     "Products retrieved from cache", "")]
          ELSE /\ req' = [req EXCEPT ![p] =
                    GetCatch([@ EXCEPT !.storeReads = @ + 1,
                                       !.storeFailed = TRUE,
                                       !.storeError = MongoNetworkError],
                             MongoNetworkError)]
    /\ UNCHANGED << server, mongoConnected, exit, env, redisClient, redisReady,
                    store, cache, acked >>

\* GetFind with the bug "empty lists cached too": the test
\* products.length > 0 is missing
GetFindCachesEmpty(p) ==
    /\ req[p].pc = "g_find"
    /\ \E ok \in BOOLEAN :
          IF ok
          THEN /\ req' = [req EXCEPT ![p] =
                    LET r == [@ EXCEPT !.products = Find(store),
                                       !.seen = store,
                                       !.storeReads = @ + 1]
                    IN  IF RedisUsable
                        THEN [r EXCEPT !.pc = "g_cacheSet"]
                        ELSE Respond(r, 200, JSONStringify(r.products),
                                     "Products retrieved successfully", "")]
          ELSE /\ req' = [req EXCEPT ![p] =
                    GetCatch([@ EXCEPT !.storeReads = @ + 1,
                                       !.storeFailed = TRUE,
                                       !.storeError = MongoNetworkError],
                             MongoNetworkError)]
    /\ UNCHANGED << server, mongoConnected, exit, env, redisClient, redisReady,
                    store, cache, acked >>

\* GetFind with the bug "store failure hidden": a failing Product.find is
\* answered 200 with an empty list
GetFindSwallowing(p) ==
    /\ req[p].pc = "g_find"
    /\ \E ok \in BOOLEAN :
          IF ok
          THEN /\ req' = [req EXCEPT ![p] =
                    LET r == [@ EXCEPT !.products = Find(store),
                                       !.seen = store,
                                       !.storeReads = @ + 1]
                    IN  IF RedisUsable /\ Len(r.products) > 0
                        THEN [r EXCEPT !.pc = "g_cacheSet"]
                        ELSE Respond(r, 200, JSONStringify(r.products),
                                     "Products retrieved successfully", "")]
          ELSE /\ req' = [req EXCEPT ![p] =
                    Respond([@ EXCEPT !.storeReads = @ + 1,
                                      !.storeFailed = TRUE,
                                      !.storeError = MongoNetworkError],
                            200, JSONStringify(<< >>),
                            "Products retrieved successfully", "")]
    /\ UNCHANGED << server, mongoConnected, exit, env, redisClient, redisReady,
                    store, cache, acked >>

\* Product.find({}) completes; the result is cached if Redis is usable and
\* the result is not empty, and answered
GetFind(p) ==
    /\ req[p].pc = "g_find"
    /\ \E ok \in BOOLEAN :
          IF ok
          THEN /\ req' = [req EXCEPT ![p] =
                    LET r == [@ EXCEPT !.products = Find(store),
                                       !.seen = store,
                                       !.storeReads = @ + 1]
                    IN  IF RedisUsable /\ Len(r.products) > 0
                        THEN [r EXCEPT !.pc = "g_cacheSet"]
                        ELSE Respond(r, 200, JSONStringify(r.products),
                                     "Products retrieved successfully", "")]
          ELSE /\ req' = [req EXCEPT ![p] =
                    GetCatch([@ EXCEPT !.storeReads = @ + 1,
                                       !.storeFailed = TRUE,
                                       !.storeError = MongoNetworkError],
                             MongoNetworkError)]
    /\ UNCHANGED << server, mongoConnected, exit, env,
                    redisClient, redisReady, store, cache, acked >>

\* GetCacheSet with the bug "write error not caught": a failing
\* redisClient.set reaches the outer catch and the request ends with 500
GetCacheSetSurfacing(p) ==
    /\ req[p].pc = "g_cacheSet"
    /\ \E ok \in RedisOutcomes :
          /\ cache' = IF ok THEN Entry(JSONStringify(req[p].products),
                                        req[p].seen)
                      ELSE cache
          /\ req' = [req EXCEPT ![p] =
               LET r == [@ EXCEPT !.cacheWrites = @ + (IF ok THEN 1 ELSE 0),
                                  !.written = IF ok THEN Value(cache'.text)
                                              ELSE @,
                                  !.cacheFailed = @ \/ ~ok]
               IN  IF ok
                   THEN Respond(r, 200, JSONStringify(req[p].products),
                                "Products retrieved successfully", "")
                   ELSE Respond(r, 500, NoText, "", "Redis set error")]
    /\ UNCHANGED << server, mongoConnected, exit, env,
                    redisClient, redisReady, store, acked >>

\* GetCacheSet with the bug "add to the entry": the result is appended to
\* the list the key already holds instead of replacing it
GetCacheSetMerged(p) ==
    /\ req[p].pc = "g_cacheSet"
    /\ \E ok \in RedisOutcomes :
          /\ cache' = IF ok
                      THEN Entry(StringifyPlain(
                                   JSONParse(cache.text)
                                     \o JSONParse(JSONStringify(req[p].products))),
                                 req[p].seen)
                      ELSE cache
          /\ req' = [req EXCEPT ![p] =
               Respond([@ EXCEPT !.cacheWrites = @ + (IF ok THEN 1 ELSE 0),
                                 !.written = IF ok THEN Value(cache'.text) ELSE @,
                                 !.cacheFailed = @ \/ ~ok],
                       200, JSONStringify(req[p].products),
                       "Products retrieved successfully", "")]
    /\ UNCHANGED << server, mongoConnected, exit, env,
                    redisClient, redisReady, store, acked >>

\* redisClient.set(cacheKey, JSON.stringify(products), {EX: 3600}) completes
GetCacheSet(p) ==
    /\ req[p].pc = "g_cacheSet"
    /\ \E ok \in RedisOutcomes :
          /\ cache' = IF ok THEN Entry(JSONStringify(req[p].products),
                                        req[p].seen)
                      ELSE cache
          /\ req' = [req EXCEPT ![p] =
               Respond([@ EXCEPT !.log = Append(@, IF ok
                                             THEN "Products cached in Redis"
                                             ELSE "Redis set error"),
                                 !.cacheWrites = @ + (IF ok THEN 1 ELSE 0),
                                 !.written = IF ok THEN Value(cache'.text) ELSE @,
                                 !.cacheFailed = @ \/ ~ok],
                       200, JSONStringify(req[p].products),
                       "Products retrieved successfully", "")]
    /\ UNCHANGED << server, mongoConnected, exit, env,
                    redisClient, redisReady, store, acked >>


(***************************************************************************)
(* POST /api/products                                                      *)
(***************************************************************************)
\* PostValidate with the bug "sign not checked": the test price < 0 is
\* missing from the second check
PostValidateNoSign(r, b) ==
    IF ~Truthy(b.name) \/ ~Truthy(b.price)
    THEN Respond(r, 400, NoText, "", "Name and price are required fields")
    ELSE IF IsNaN(b.price)
    THEN Respond(r, 400, NoText, "", "Price must be a valid positive number")
    ELSE IF b.name.t # "string"
              \/ (Truthy(b.description) /\ b.description.t # "string")
    THEN PostCatch(r, TrimTypeError)
    ELSE [r EXCEPT !.pc = "p_save",
                   !.newProduct =
                      [name |-> Trim(b.name.s),
                       price |-> ParseFloat(b.price),
                       description |-> IF Truthy(b.description)
                                       THEN Trim(b.description.s)
                                       ELSE << >>]]

\* the checks of the request body, and the construction of the document,
\* up to the call of newProduct.save(): the handler's locals after them
PostValidate(r, b) ==
    IF ~Truthy(b.name) \/ ~Truthy(b.price)
    THEN Respond(r, 400, NoText, "", "Name and price are required fields")
    ELSE IF IsNaN(b.price) \/ LessThanZero(b.price)
    THEN Respond(r, 400, NoText, "", "Price must be a valid positive number")
    ELSE IF b.name.t # "string"
              \/ (Truthy(b.description) /\ b.description.t # "string")
    \* name.trim / description.trim is not a function: a TypeError, caught
    THEN PostCatch(r, TrimTypeError)
    ELSE [r EXCEPT !.pc = "p_save",
                   !.newProduct =
                      [name |-> Trim(b.name.s),
                       price |-> ParseFloat(b.price),
                       description |-> IF Truthy(b.description)
                                       THEN Trim(b.description.s)
                                       ELSE << >>]]

\* the handler is entered with body b
PostStart(p, b) ==
    /\ server = "listening"
    /\ req[p].pc = "idle"
    /\ Len(store) + Cardinality({q \in Procs : req[q].pc = "p_save"})
          < MaxProducts
    /\ req' = [req EXCEPT ![p] =
                 PostValidate([InitReq EXCEPT !.kind = "POST", !.method = "POST",
                                              !.url = ProductsPath,
                                              !.body = b], b)]
    /\ UNCHANGED << server, mongoConnected, exit, env,
                    redisClient, redisReady, store, cache, acked >>

\* the schema's cast of the document: a price that is NaN does not cast to
\* Number, and save() rejects with a ValidationError
SchemaValid(d) == d.price.t = "number"

\* PostSave with the bug "replace instead of insert": the saved document
\* takes the place of the collection's last document
PostSaveReplacing(p) ==
    /\ req[p].pc = "p_save"
    /\ IF ~SchemaValid(req[p].newProduct)
       THEN /\ req' = [req EXCEPT ![p] = PostCatch(@, CastValidationError)]
            /\ UNCHANGED store
       ELSE \E outcome \in {"saved", "duplicate", "error"} :
              IF outcome = "saved"
              THEN LET d == Doc(Len(store) + 1, req[p].newProduct.name,
                                req[p].newProduct.price.n,
                                req[p].newProduct.description)
                   IN  /\ store' = IF store = << >> THEN << d >>
                                    ELSE [store EXCEPT ![Len(store)] = d]
                       /\ req' = [req EXCEPT ![p] =
                            LET r == [@ EXCEPT !.savedProduct = d,
                                               !.storeWrites = @ + 1]
                            IN  IF RedisUsable
                                THEN [r EXCEPT !.pc = "p_find"]
                                ELSE Respond([r EXCEPT !.path = "norefresh"],
                                             201, JSONStringify(<< d >>),
                                             "Product created successfully",
                                             "")]
              ELSE /\ req' = [req EXCEPT ![p] =
                        LET err == IF outcome = "duplicate"
                                   THEN DuplicateKeyError
                                   ELSE MongoNetworkError
                        IN  PostCatch([@ EXCEPT !.storeFailed = TRUE,
                                                !.storeError = err], err)]
                   /\ UNCHANGED store
    /\ UNCHANGED << server, mongoConnected, exit, env,
                    redisClient, redisReady, cache, acked >>

\* PostSave with the bug "write-ahead": the handler has put the new product
\* into the cached list before the insert, and a failed insert leaves it there
PostSaveWriteAhead(p) ==
    /\ req[p].pc = "p_save"
    /\ IF ~SchemaValid(req[p].newProduct)
       THEN /\ req' = [req EXCEPT ![p] = PostCatch(@, CastValidationError)]
            /\ UNCHANGED store
       ELSE \E outcome \in {"saved", "duplicate", "error"} :
              IF outcome = "saved"
              THEN LET d == Doc(Len(store) + 1, req[p].newProduct.name,
                                req[p].newProduct.price.n,
                                req[p].newProduct.description)
                   IN  /\ store' = Append(store, d)
                       /\ req' = [req EXCEPT ![p] =
                            LET r == [@ EXCEPT !.savedProduct = d,
                                               !.storeWrites = @ + 1]
                            IN  IF RedisUsable
                                THEN [r EXCEPT !.pc = "p_find"]
                                ELSE Respond([r EXCEPT !.path = "norefresh"],
                                             201, JSONStringify(<< d >>),
                                             "Product created successfully",
                                             "")]
              ELSE /\ req' = [req EXCEPT ![p] =
                        LET err == IF outcome = "duplicate"
                                   THEN DuplicateKeyError
                                   ELSE MongoNetworkError
                        IN  PostCatch([@ EXCEPT !.storeFailed = TRUE,
                                                !.storeError = err], err)]
                   /\ UNCHANGED store
    /\ cache' = IF RedisUsable /\ store' = store
                THEN Entry(JSONStringify(
                         Append(store,
                                Doc(Len(store) + 1, req[p].newProduct.name,
                                    req[p].newProduct.price.n,
                                    req[p].newProduct.description))), store)
                ELSE cache
    /\ UNCHANGED << server, mongoConnected, exit, env,
                    redisClient, redisReady, acked >>


\* PostSave with the bug "refresh in any case": a rejected insert is noted
\* and the handler goes on to the cache refresh
PostSaveRefreshAlways(p) ==
    /\ req[p].pc = "p_save"
    /\ IF ~SchemaValid(req[p].newProduct)
       THEN /\ req' = [req EXCEPT ![p] = PostCatch(@, CastValidationError)]
            /\ UNCHANGED store
       ELSE \E outcome \in {"saved", "duplicate", "error"} :
              IF outcome = "saved"
              THEN LET d == Doc(Len(store) + 1, req[p].newProduct.name,
                                req[p].newProduct.price.n,
                                req[p].newProduct.description)
                   IN  /\ store' = Append(store, d)
                       /\ req' = [req EXCEPT ![p] =
                            LET r == [@ EXCEPT !.savedProduct = d,
                                               !.storeWrites = @ + 1]
                            IN  IF RedisUsable
                                THEN [r EXCEPT !.pc = "p_find"]
                                ELSE Respond([r EXCEPT !.path = "norefresh"],
                                             201, JSONStringify(<< d >>),
                                             "Product created successfully",
                                             "")]
              ELSE /\ req' = [req EXCEPT ![p] =
                        LET err == IF outcome = "duplicate"
                                   THEN DuplicateKeyError
                                   ELSE MongoNetworkError
                        IN  IF RedisUsable
                            THEN [@ EXCEPT !.storeFailed = TRUE,
                                           !.storeError = err,
                                           !.caught = err, !.pc = "p_find"]
                            ELSE PostCatch([@ EXCEPT !.storeFailed = TRUE,
                                                     !.storeError = err],
                                           err)]
                   /\ UNCHANGED store
    /\ UNCHANGED << server, mongoConnected, exit, env,
                    redisClient, redisReady, cache, acked >>


\* newProduct.save() completes: the insert, then Product.find({}) is issued
\* if Redis is usable, and the 201 is sent otherwise
PostSave(p) ==
    /\ req[p].pc = "p_save"
    /\ IF ~SchemaValid(req[p].newProduct)
       THEN /\ req' = [req EXCEPT ![p] = PostCatch(@, CastValidationError)]
            /\ UNCHANGED store
       ELSE \E outcome \in {"saved", "duplicate", "error"} :
              IF outcome = "saved"
              THEN LET d == Doc(Len(store) + 1, req[p].newProduct.name,
                                req[p].newProduct.price.n,
                                req[p].newProduct.description)
                   IN  /\ store' = Append(store, d)
                       /\ req' = [req EXCEPT ![p] =
                            LET r == [@ EXCEPT !.savedProduct = d,
                                               !.storeWrites = @ + 1]
                            IN  IF RedisUsable
                                THEN [r EXCEPT !.pc = "p_find"]
                                ELSE Respond([r EXCEPT !.path = "norefresh"],
                                             201, JSONStringify(<< d >>),
                                             "Product created successfully",
                                             "")]
              ELSE /\ req' = [req EXCEPT ![p] =
                        LET err == IF outcome = "duplicate"
                                   THEN DuplicateKeyError
                                   ELSE MongoNetworkError
                        IN  PostCatch([@ EXCEPT !.storeFailed = TRUE,
                                                !.storeError = err], err)]
                   /\ UNCHANGED store
    /\ UNCHANGED << server, mongoConnected, exit, env,
                    redisClient, redisReady, cache, acked >>

\* PostFind with the bug "snapshot from before the insert": the re-read
\* returns the collection without the product just saved
PostFindStale(p) ==
    /\ req[p].pc = "p_find"
    /\ \E ok \in BOOLEAN :
          IF ok
          THEN req' = [req EXCEPT ![p] =
                    [@ EXCEPT !.products =
                                 SelectSeq(Find(store),
                                           LAMBDA d : d # req[p].savedProduct),
                              !.seen = store,
                              !.storeReads = @ + 1, !.pc = "p_cacheSet"]]
          ELSE req' = [req EXCEPT ![p] =
                    Respond([@ EXCEPT !.storeReads = @ + 1,
                                      !.storeFailed = TRUE,
                                      !.storeError = MongoNetworkError,
                                      !.path = "rereadFailed"],
                            201, JSONStringify(<< @.savedProduct >>),
                            "Product created successfully", "")]
    /\ UNCHANGED << server, mongoConnected, exit, env,
                    redisClient, redisReady, store, cache, acked >>

\* PostFind with the bug "fire and forget": the set is issued without await
\* and the 201 is sent while it is pending
PostFindNoAwait(p) ==
    /\ req[p].pc = "p_find"
    /\ \E ok \in BOOLEAN :
          IF ok
          THEN /\ req' = [req EXCEPT ![p] =
                    [Respond([@ EXCEPT !.products = Find(store),
                                       !.seen = store,
                                       !.storeReads = @ + 1],
                             201, JSONStringify(<< @.savedProduct >>),
                             "Product created successfully", "")
                       EXCEPT !.pc = "p_cacheSet"]]
          ELSE /\ req' = [req EXCEPT ![p] =
                    Respond([@ EXCEPT !.storeReads = @ + 1,
                                      !.storeFailed = TRUE,
                                      !.storeError = MongoNetworkError,
                                      !.path = "rereadFailed"],
                            201, JSONStringify(<< @.savedProduct >>),
                            "Product created successfully", "")]
    /\ UNCHANGED << server, mongoConnected, exit, env,
                    redisClient, redisReady, store, cache, acked >>


\* Product.find({}) of the cache refresh completes; its failure is caught
\* by the refresh's own try/catch and the 201 is sent
PostFind(p) ==
    /\ req[p].pc = "p_find"
    /\ \E ok \in BOOLEAN :
          IF ok
          THEN /\ req' = [req EXCEPT ![p] =
                    [@ EXCEPT !.products = Find(store), !.seen = store,
                              !.storeReads = @ + 1, !.pc = "p_cacheSet"]]
          ELSE /\ req' = [req EXCEPT ![p] =
                    Respond([@ EXCEPT !.storeReads = @ + 1,
                                      !.storeFailed = TRUE,
                                      !.storeError = MongoNetworkError,
                                      !.path = "rereadFailed"],
                            201, JSONStringify(<< @.savedProduct >>),
                            "Product created successfully", "")]
    /\ UNCHANGED << server, mongoConnected, exit, env,
                    redisClient, redisReady, store, cache, acked >>

\* PostCacheSet with the bug "patch the cached list": the new product is
\* appended to the cached snapshot instead of writing the re-read collection
PostCacheSetPatched(p) ==
    /\ req[p].pc = "p_cacheSet"
    /\ \E ok \in RedisOutcomes :
          /\ cache' = IF ok
                      THEN Entry(StringifyPlain(
                                   Append(JSONParse(cache.text),
                                          ToJSON(req[p].savedProduct))),
                                 req[p].seen)
                      ELSE cache
          /\ req' = [req EXCEPT ![p] =
               Respond([@ EXCEPT !.cacheWrites = @ + (IF ok THEN 1 ELSE 0),
                                 !.written = IF ok THEN Value(cache'.text) ELSE @,
                                 !.cacheFailed = @ \/ ~ok,
                                 !.path = IF ok THEN "refreshed"
                                          ELSE "setFailed"],
                       201, JSONStringify(<< @.savedProduct >>),
                       "Product created successfully", "")]
          /\ acked' = IF ok THEN acked \cup {req[p].savedProduct._id.oid}
                      ELSE acked
    /\ UNCHANGED << server, mongoConnected, exit, env,
                    redisClient, redisReady, store >>

\* redisClient.set(cacheKey, JSON.stringify(allProducts), {EX: 3600})
\* completes, and the 201 is sent
PostCacheSet(p) ==
    /\ req[p].pc = "p_cacheSet"
    /\ \E ok \in RedisOutcomes :
          /\ cache' = IF ok THEN Entry(JSONStringify(req[p].products),
                                        req[p].seen)
                      ELSE cache
          /\ req' = [req EXCEPT ![p] =
               Respond([@ EXCEPT !.cacheWrites = @ + (IF ok THEN 1 ELSE 0),
                                 !.written = IF ok THEN Value(cache'.text) ELSE @,
                                 !.cacheFailed = @ \/ ~ok,
                                 !.path = IF ok THEN "refreshed"
                                          ELSE "setFailed"],
                       201, JSONStringify(<< @.savedProduct >>),
                       "Product created successfully", "")]
          /\ acked' = IF ok THEN acked \cup {req[p].savedProduct._id.oid}
                      ELSE acked
    /\ UNCHANGED << server, mongoConnected, exit, env,
                    redisClient, redisReady, store >>

\* the response has been sent; the slot takes the next request
Finish(p) ==
    /\ req[p].pc = "done"
    /\ req' = [req EXCEPT ![p] = InitReq]
    /\ UNCHANGED << server, mongoConnected, exit, env,
                    redisClient, redisReady, store, cache, acked >>

(***************************************************************************)
(* The other requests: the middleware and the router of Express decide     *)
(* what answers a request that is not one of the two above.                *)
(***************************************************************************)
\* the router compares paths without regard to case
Lower(seg) ==
    CASE seg = "API" -> "api"
      [] seg = "Products" -> "products"
      [] seg = "Health" -> "health"
      [] OTHER -> seg

\* the router's path match (strict routing is off: one trailing slash, an
\* empty last segment, is ignored)
PathMatches(path, u) ==
    LET v == IF u # << >> /\ u[Len(u)] = "" THEN SubSeq(u, 1, Len(u) - 1)
             ELSE u
    IN  [i \in 1..Len(v) |-> Lower(v[i])] = path

\* Route with the bug "any method": the routes are registered for all
\* methods
RouteAnyMethod(m, u) ==
    IF PathMatches(HealthPath, u) THEN "health"
    ELSE IF PathMatches(ProductsPath, u) THEN "list"
    ELSE "notFound"

\* the route that handles method m on path u: app.get also serves HEAD
Route(m, u) ==
    IF m \in {"GET", "HEAD"} /\ PathMatches(HealthPath, u) THEN "health"
    ELSE IF m \in {"GET", "HEAD"} /\ PathMatches(ProductsPath, u) THEN "list"
    ELSE IF m = "POST" /\ PathMatches(ProductsPath, u) THEN "create"
    ELSE "notFound"

\* requests other than GET /api/products and POST /api/products
Requests ==
    { << "GET", HealthPath >>,
      << "HEAD", HealthPath >>,
      << "POST", HealthPath >>,
      << "OPTIONS", HealthPath >>,
      << "DELETE", ProductsPath >>,
      << "PUT", ProductsPath >>,
      << "HEAD", ProductsPath >>,
      << "OPTIONS", ProductsPath >>,
      << "GET", << "api", "products", "" >> >>,
      << "GET", << "API", "Products" >> >>,
      << "POST", << "api", "products", "" >> >>,
      << "GET", << "api", "products", "1" >> >>,
      << "GET", << "api" >> >>,
      << "GET", << >> >>,
      << "OPTIONS", << "nowhere" >> >>,
      << "DELETE", << "nowhere" >> >> }

\* a request arrives: cors() ends every OPTIONS request with 204, a body
\* express.json() cannot parse goes to the error-handling middleware, the
\* router enters the handler of the matching route, and app.use('*')
\* answers what no route matched
OtherRequest(p, m, u) ==
    /\ server = "listening"
    /\ req[p].pc = "idle"
    /\ \E parsed \in BOOLEAN :
       req' = [req EXCEPT ![p] =
         LET r == [InitReq EXCEPT !.method = m, !.url = u,
                                  !.parsed = parsed \/ m = "OPTIONS"]
         IN  IF m = "OPTIONS"
             THEN [r EXCEPT !.kind = "cors", !.pc = "done",
                            !.responses = @ + 1, !.status = 204]
             ELSE IF ~parsed
             THEN Respond([r EXCEPT !.kind = "errorHandler"], 500, NoText,
                          "", "Something went wrong!")
             ELSE IF Route(m, u) = "health"
             THEN [r EXCEPT !.kind = "health", !.pc = "done",
                            !.responses = @ + 1,
                            !.status = 200, !.message = "healthy"]
             ELSE IF Route(m, u) = "list"
             THEN [r EXCEPT !.kind = "GET",
                            !.pc = IF RedisUsable THEN "g_cacheGet"
                                   ELSE "g_find",
                            !.path = IF RedisUsable THEN "none"
                                     ELSE "unreachable",
                            !.log = EntryLog(env, RedisUsable),
                            !.mustSee = acked]
             ELSE IF Route(m, u) = "create"
             THEN PostValidate([r EXCEPT !.kind = "POST"], NoBody)
             ELSE Respond([r EXCEPT !.kind = "notFound"], 404, NoText, "",
                          "Route not found")]
    /\ UNCHANGED << server, mongoConnected, exit, env, redisClient, redisReady,
                    store, cache, acked >>

(***************************************************************************)
(* The specification.                                                      *)
(***************************************************************************)
Next ==
    \/ ConnectMongoDB
    \/ ConnectRedis
    \/ RedisDisconnect
    \/ RedisReconnect
    \/ Tick
    \/ RedisEvict
    \/ \E p \in Procs : GetStart(p)
    \/ \E p \in Procs : GetCacheGet(p)
    \/ \E p \in Procs : GetFind(p)
    \/ \E p \in Procs : GetCacheSet(p)
    \/ \E p \in Procs : \E b \in MainBodies : PostStart(p, b)
    \/ \E p \in Procs : PostSave(p)
    \/ \E p \in Procs : PostFind(p)
    \/ \E p \in Procs : PostCacheSet(p)
    \/ \E p \in Procs : Finish(p)

Spec == Init /\ [][Next]_vars

(***************************************************************************)
(* One request at a time, on every body of Bodies: the specification of    *)
(* the claims about what a create request accepts and rejects.             *)
(***************************************************************************)
One == {"r1"}

NextCreate ==
    \/ ConnectMongoDB
    \/ ConnectRedis
    \/ RedisDisconnect
    \/ RedisReconnect
    \/ Tick
    \/ RedisEvict
    \/ \E p \in One : GetStart(p)
    \/ \E p \in One : GetCacheGet(p)
    \/ \E p \in One : GetFind(p)
    \/ \E p \in One : GetCacheSet(p)
    \/ \E p \in One : \E b \in Bodies : PostStart(p, b)
    \/ \E p \in One : PostSave(p)
    \/ \E p \in One : PostFind(p)
    \/ \E p \in One : PostCacheSet(p)
    \/ \E p \in One : Finish(p)

SpecCreate == Init /\ [][NextCreate]_vars

(***************************************************************************)
(* The same, with every call a handler awaits settling: once the call is   *)
(* pending, the step that resolves or rejects it and runs the handler on   *)
(* to its next await or to its response is eventually taken.               *)
(***************************************************************************)
CallsSettle ==
    \A p \in One :
        /\ WF_vars(GetCacheGet(p))
        /\ WF_vars(GetFind(p))
        /\ WF_vars(GetCacheSet(p))
        /\ WF_vars(PostSave(p))
        /\ WF_vars(PostFind(p))
        /\ WF_vars(PostCacheSet(p))

SpecLive == Init /\ [][NextCreate]_vars /\ CallsSettle

(***************************************************************************)
(* One request at a time, on every request of Requests next to the list    *)
(* and create requests: the specification of the claims about routing      *)
(* (the route of a request is decided in one step, at its arrival).        *)
(***************************************************************************)
RouteBodies == { Body(JSStr(W), JSNum(5), JSUndefined) }

NextRoutes ==
    \/ ConnectMongoDB
    \/ ConnectRedis
    \/ RedisDisconnect
    \/ RedisReconnect
    \/ Tick
    \/ RedisEvict
    \/ \E p \in One : GetStart(p)
    \/ \E p \in One : GetCacheGet(p)
    \/ \E p \in One : GetFind(p)
    \/ \E p \in One : GetCacheSet(p)
    \/ \E p \in One : \E b \in RouteBodies : PostStart(p, b)
    \/ \E p \in One : PostSave(p)
    \/ \E p \in One : PostFind(p)
    \/ \E p \in One : PostCacheSet(p)
    \/ \E p \in One : \E x \in Requests : OtherRequest(p, x[1], x[2])
    \/ \E p \in One : Finish(p)

SpecRoutes == Init /\ [][NextRoutes]_vars

(***************************************************************************)
(* Two GET requests on a cold cache and nothing else: the server listens,  *)
(* Redis is connected, the key is absent, the store holds what earlier     *)
(* creates left in it, and each slot handles one GET.                      *)
(***************************************************************************)
ColdStores ==
    { << >>,
      << Doc(1, W, 5, << >>) >>,
      << Doc(1, W, 5, << >>), Doc(2, W, 5, << >>) >> }

InitCold ==
    /\ server = "listening"
    /\ mongoConnected = TRUE
    /\ exit = << >>
    /\ env = DefaultEnv
    /\ redisClient = "client"
    /\ redisReady = TRUE
    /\ store \in ColdStores
    /\ cache = NoEntry
    /\ req = [p \in Procs |-> InitReq]
    /\ acked = {}

NextCold ==
    \/ RedisDisconnect
    \/ RedisReconnect
    \/ \E p \in Procs : GetStart(p)
    \/ \E p \in Procs : GetCacheGet(p)
    \/ \E p \in Procs : GetFind(p)
    \/ \E p \in Procs : GetCacheSet(p)

SpecCold == InitCold /\ [][NextCold]_vars

(***************************************************************************)
(* The same runs under each value of REDIS_PASSWORD: two runs that take    *)
(* the same steps differ in env only, and in what the handler derives from *)
(* it.                                                                     *)
(***************************************************************************)
InitSecret ==
    /\ server = "listening"
    /\ mongoConnected = TRUE
    /\ exit = << >>
    /\ env \in {Env(password) : password \in Passwords}
    /\ redisClient = "client"
    /\ redisReady = TRUE
    /\ store \in ColdStores
    /\ cache = NoEntry
    /\ req = [p \in Procs |-> InitReq]
    /\ acked = {}

SpecSecret == InitSecret /\ [][NextCold]_vars

(***************************************************************************)
(* GET requests while another client of the same Redis (the RedisInsight   *)
(* console of the stack, redis-cli) sets the key 'products' to a text      *)
(* the service did not write.                                              *)
(***************************************************************************)
\* the texts the other client writes: the JSON text of the collection cut
\* short, and the empty string
ForeignTexts ==
    { [json |-> JSONStringify(store).json, form |-> "cut"],
      [json |-> << >>, form |-> "empty"] }

ExternalWrite ==
    /\ \E t \in ForeignTexts :
          cache' = [present |-> TRUE, text |-> t, ttl |-> TTL, src |-> << >>]
    /\ cache' # cache
    /\ UNCHANGED << server, mongoConnected, exit, env, redisClient, redisReady,
                    store, req, acked >>

NextCorrupt ==
    \/ ExternalWrite
    \/ RedisDisconnect
    \/ RedisReconnect
    \/ \E p \in Procs : GetStart(p)
    \/ \E p \in Procs : GetCacheGet(p)
    \/ \E p \in Procs : GetFind(p)
    \/ \E p \in Procs : GetCacheSet(p)
    \/ \E p \in Procs : Finish(p)

SpecCorrupt == InitCold /\ [][NextCorrupt]_vars


(***************************************************************************)
(* The claims.                                                             *)
(***************************************************************************)
GetDone(p) == req[p].kind = "GET" /\ req[p].pc = "done"
PostDone(p) == req[p].kind = "POST" /\ req[p].pc = "done"

\* the ids of the products of a JSON list
IdsOf(text) == {JSONParse(text)[i]._id : i \in 1..Len(JSONParse(text))}

\* C1: once a POST has answered 201 after refreshing the cache, every GET
\* that starts afterwards and answers 200 returns a list containing the
\* product that POST created (mustSee: the ids so acknowledged when the GET
\* started).
C1_NoStaleListAfterCreate ==
    \A p \in Procs :
        (GetDone(p) /\ req[p].status = 200)
            => req[p].mustSee \subseteq IdsOf(req[p].data)

\* C2: the cache entry, if present, is the serialisation of the complete
\* result of one store query: of everything the store held at the moment of
\* the query whose result was written.
C2_EntryIsOneQueryResult ==
    cache.present => cache.text = JSONStringify(cache.src)

\* C2's case: an entry written from a query that returned two products
C2_Witness ==
    cache.present /\ Len(cache.src) = 2 /\ Len(JSONParse(cache.text)) = 2

\* C3: a GET that finds the cache backend unusable (redisClient null or not
\* ready), and whose store query succeeds, answers 200 with the contents the
\* store had at that query.
C3_FailOpen ==
    \A p \in Procs :
        (GetDone(p) /\ req[p].path = "unreachable" /\ ~req[p].storeFailed)
            => /\ req[p].status = 200
               /\ req[p].data = JSONStringify(req[p].seen)
               /\ req[p].message = "Products retrieved successfully"

\* C3's case: Redis never connected, the store holds a product, the GET
\* answered with it
C3_Witness ==
    \E p \in Procs :
        /\ GetDone(p) /\ req[p].path = "unreachable" /\ ~req[p].storeFailed
        /\ redisClient = "null"
        /\ Len(req[p].seen) >= 1
        /\ req[p].status = 200


(***************************************************************************)
(* What the claims call a valid and an invalid create request.             *)
(***************************************************************************)
\* a text that is a decimal literal, with or without sign
NumericLiteral(str) ==
    LET u == Unsigned(Trim(str)) IN u # << >> /\ DigitPrefix(u) = u

\* a name that is a text and is not empty after trimming
ValidName(v) == v.t = "string" /\ Trim(v.s) # << >>

\* a description that is absent or a text
ValidDescription(v) == v.t \in {"undefined", "string"}

\* a price that is a number >= 0
NonNegativePrice(v) == v.t = "number" /\ v.n >= 0

\* a name that is absent or the empty text
EmptyName(v) == v.t \in {"undefined", "null"} \/ (v.t = "string" /\ v.s = << >>)

\* a price that is absent (or the empty text)
MissingPrice(v) ==
    v.t \in {"undefined", "null"} \/ (v.t = "string" /\ v.s = << >>)

\* a price that is a text with something in it that is not a number
NonNumericPrice(v) ==
    v.t = "string" /\ Trim(v.s) # << >> /\ ~NumericLiteral(v.s)

\* a price that is a number below 0, as a number or as its text
NegativePrice(v) ==
    \/ v.t = "number" /\ v.n < 0
    \/ /\ v.t = "string" /\ NumericLiteral(v.s)
       /\ SignOf(Trim(v.s)) * DigitsValue(Unsigned(Trim(v.s))) < 0

InvalidCreate(b) ==
    \/ EmptyName(b.name)
    \/ MissingPrice(b.price)
    \/ NonNumericPrice(b.price)
    \/ NegativePrice(b.price)

\* C4: every create request with a valid name and a price >= 0 (0
\* included), whose store operations succeed, answers 201, and the store
\* then holds a record with that name and that price.
C4_ValidCreateSucceeds ==
    \A p \in Procs :
        (/\ PostDone(p)
         /\ ValidName(req[p].body.name)
         /\ NonNegativePrice(req[p].body.price)
         /\ ValidDescription(req[p].body.description)
         /\ ~req[p].storeFailed)
            => /\ req[p].status = 201
               /\ \E i \in 1..Len(store) :
                     /\ store[i].name = Trim(req[p].body.name.s)
                     /\ store[i].price = req[p].body.price.n

\* C5: a create request whose name is empty or whose price is missing,
\* non-numeric or negative is answered 400 in the handler's first step, and
\* has made no store insert, no store read and no cache write.
C5_InvalidCreateRejected ==
    \A p \in Procs :
        (req[p].kind = "POST" /\ InvalidCreate(req[p].body))
            => /\ req[p].pc = "done"
               /\ req[p].status = 400
               /\ req[p].storeWrites = 0
               /\ req[p].storeReads = 0
               /\ req[p].cacheWrites = 0

\* C5's case: price "abc" rejected while the store and the cache hold a
\* product
C5_Witness ==
    \E p \in Procs :
        /\ PostDone(p)
        /\ req[p].body.price = JSStr(<< "a", "b", "c" >>)
        /\ req[p].status = 400
        /\ Len(store) = 1
        /\ cache.present /\ cache.text = JSONStringify(store)


\* a GET that found the key absent, queried the store and answered 200
ColdGetDone(p) ==
    GetDone(p) /\ req[p].path = "miss" /\ req[p].status = 200

\* C6 as stated: two GETs that both found the cache cold answer with
\* identical data, and when both are done the cache holds one snapshot, the
\* result of a single store query.
C6_ColdGetsLeaveSnapshot ==
    \A p, q \in Procs :
        (p # q /\ ColdGetDone(p) /\ ColdGetDone(q))
            => /\ req[p].data = req[q].data
               /\ cache.present
               /\ cache.text = JSONStringify(store)

\* C6 as amended: two GETs that both found the cache cold, with no create
\* in between, answer with identical data, the store's contents; the entry
\* they leave, if any, is the serialisation of that one query result, the
\* same whichever set came last; there is an entry if one of the two sets
\* succeeded, and none if the store is empty.
C6_ColdGetsAgree ==
    \A p, q \in Procs :
        (p # q /\ ColdGetDone(p) /\ ColdGetDone(q))
            => /\ req[p].data = req[q].data
               /\ req[p].data = JSONStringify(store)
               /\ cache.present => cache.text = JSONStringify(store)
               /\ (req[p].written.present \/ req[q].written.present)
                     => cache.present
               /\ req[p].written.present
                     => req[p].written.text = cache.text
               /\ Len(store) = 0 => ~cache.present

\* C6's case: both GETs missed, both wrote, two products in the snapshot
C6_Witness ==
    \A p \in Procs :
        /\ ColdGetDone(p)
        /\ req[p].written.present
        /\ Len(JSONParse(cache.text)) = 2

\* C7 as stated: when a POST has answered 201 the cache entry holds a
\* snapshot that contains the product it created.
C7_CacheHoldsCreated ==
    \A p \in Procs :
        (PostDone(p) /\ req[p].status = 201)
            => /\ cache.present
               /\ req[p].savedProduct._id.oid \in IdsOf(cache.text)

\* C7 as amended: a POST that answers 201 has inserted its product; if
\* Redis was usable after the insert and the re-read and the set succeeded,
\* the snapshot it wrote is the serialisation of the full collection as the
\* store held it at the re-read, after the insert, and contains the new
\* product; otherwise (Redis not usable, re-read or set failed) it answers
\* 201 all the same and has written nothing to the cache.
C7_RefreshWritesFreshSnapshot ==
    \A p \in Procs :
        (PostDone(p) /\ req[p].status = 201)
            => /\ req[p].storeWrites = 1
               /\ \E i \in 1..Len(store) : store[i] = req[p].savedProduct
               /\ IF req[p].path = "refreshed"
                  THEN /\ req[p].written.present
                       /\ req[p].written.text = JSONStringify(req[p].seen)
                       /\ \E i \in 1..Len(req[p].seen) :
                             req[p].seen[i] = req[p].savedProduct
                  ELSE /\ req[p].path \in {"norefresh", "rereadFailed",
                                          "setFailed"}
                       /\ ~req[p].written.present
                       /\ req[p].cacheWrites = 0

\* C7's case: a second product created, the refresh done, the cache holding
\* both products at the 201
C7_Witness ==
    \E p \in Procs :
        /\ PostDone(p) /\ req[p].status = 201 /\ req[p].path = "refreshed"
        /\ Len(req[p].seen) = 2
        /\ cache.present /\ cache.text = req[p].written.text

\* C8: a GET whose cache read returned a value answers 200 with exactly the
\* list parsed from that value, tagged as from the cache, and makes no store
\* query and no cache write.
C8_HitServedFromCache ==
    \A p \in Procs :
        (req[p].kind = "GET" /\ req[p].path = "hit")
            => /\ req[p].pc = "done"
               /\ req[p].status = 200
               /\ req[p].cachedProducts.present
               /\ req[p].data
                     = StringifyPlain(JSONParse(req[p].cachedProducts.text))
               /\ req[p].message = "Products retrieved from cache"
               /\ req[p].storeReads = 0
               /\ req[p].cacheWrites = 0
               /\ ~req[p].written.present

\* C8's case: a hit on a snapshot of two products
C8_Witness ==
    \E p \in Procs :
        /\ GetDone(p) /\ req[p].path = "hit"
        /\ Len(JSONParse(req[p].data)) = 2

\* C9: a GET on a cache miss, a cache read error or an unusable cache goes
\* on to the store query and has made exactly one when it ends (none before
\* the query completes, one after).
C9_MissGoesToStore ==
    \A p \in Procs :
        req[p].kind = "GET"
            => /\ req[p].pc = "g_cacheGet" => req[p].path = "none"
               /\ req[p].pc = "g_find"
                     => /\ req[p].path \in {"miss", "error", "unreachable"}
                        /\ req[p].storeReads = 0
               /\ req[p].pc = "g_cacheSet" => req[p].storeReads = 1
               /\ req[p].pc = "done"
                     => /\ req[p].path \in {"hit", "miss", "error",
                                            "unreachable"}
                        /\ req[p].path # "hit" => req[p].storeReads = 1

\* C9's case: the cache read failed, the store was queried once and the
\* request answered 200 with a product
C9_Witness ==
    \E p \in Procs :
        /\ GetDone(p) /\ req[p].path = "error"
        /\ req[p].storeReads = 1
        /\ req[p].status = 200
        /\ Len(req[p].seen) >= 1

\* C10: a GET, or a POST that reached the store, whose store operations all
\* succeeded answers 200, respectively 201, whatever its cache reads and
\* writes did.
C10_CacheErrorsAbsorbed ==
    \A p \in Procs :
        (req[p].pc = "done" /\ ~req[p].storeFailed)
            => /\ req[p].kind = "GET" => req[p].status = 200
               /\ (req[p].kind = "POST" /\ req[p].storeWrites = 1)
                     => req[p].status = 201

\* C10's case: a GET whose cache read failed answered 200 with the store's
\* product, and a POST whose cache write failed answered 201
C10_Witness ==
    \E p, q \in Procs :
        /\ GetDone(p) /\ req[p].path = "error" /\ req[p].cacheFailed
        /\ req[p].status = 200 /\ Len(req[p].seen) >= 1
        /\ PostDone(q) /\ req[q].path = "setFailed" /\ req[q].status = 201

\* C11: every request whose store operation failed (the list query of a
\* GET, the insert of a POST, the re-read of a POST; a duplicate key, which
\* has its own status, left aside) answers 500 with success false and the
\* message of the store's error.
C11_StoreFailuresSurface ==
    \A p \in Procs :
        (/\ req[p].pc = "done"
         /\ req[p].storeFailed
         /\ req[p].storeError.code # DuplicateKeyCode)
            => /\ req[p].status = 500
               /\ ~req[p].success
               /\ req[p].error = req[p].storeError.message

\* C12: when the Product.find of a GET fails, the request ends in that step
\* with 500, success false and the error's message, has written nothing to
\* the cache, and the step leaves the cache entry as it was.
C12_ListFailureFails ==
    [][\A p \in Procs :
          (req[p].pc = "g_find" /\ req'[p].storeFailed)
              => /\ req'[p].pc = "done"
                 /\ req'[p].status = 500
                 /\ ~req'[p].success
                 /\ req'[p].error = MongoNetworkError.message
                 /\ req'[p].cacheWrites = 0
                 /\ ~req'[p].written.present
                 /\ cache' = cache]_vars

\* C12's case: the list query failed after a failed cache read, while the
\* key holds an entry
C12_Witness ==
    \E p \in Procs :
        /\ GetDone(p) /\ req[p].storeFailed /\ req[p].path = "error"
        /\ req[p].status = 500
        /\ cache.present /\ Len(cache.src) >= 1

\* C13: on the miss path of a GET, the step in which the store query
\* succeeds issues a cache write if and only if Redis is usable and the
\* result is not empty, and answers 200 with the result otherwise; the step
\* in which the write completes answers 200 with the store result whether
\* the write succeeded or failed, and a write that succeeded has set the
\* key to the serialisation of the full result with 3600 seconds to live.
C13_FillIffUsableAndNonEmpty ==
    [][\A p \in Procs :
          /\ (req[p].pc = "g_find" /\ req'[p].pc # "g_find"
                  /\ ~req'[p].storeFailed)
                => /\ req'[p].products = store
                   /\ (req'[p].pc = "g_cacheSet")
                         <=> (RedisUsable /\ Len(req'[p].products) > 0)
                   /\ req'[p].pc # "g_cacheSet"
                         => /\ req'[p].pc = "done"
                            /\ req'[p].status = 200
                            /\ req'[p].data = JSONStringify(req'[p].products)
                            /\ req'[p].cacheWrites = 0
                   /\ cache' = cache
          /\ (req[p].pc = "g_cacheSet" /\ req'[p].pc # "g_cacheSet")
                => /\ req'[p].pc = "done"
                   /\ req'[p].status = 200
                   /\ req'[p].success
                   /\ req'[p].data = JSONStringify(req[p].products)
                   /\ req'[p].message = "Products retrieved successfully"
                   /\ \/ /\ req'[p].cacheWrites = 1
                         /\ cache'.present
                         /\ cache'.text = JSONStringify(req[p].products)
                         /\ cache'.ttl = 3600
                      \/ /\ req'[p].cacheWrites = 0
                         /\ req'[p].cacheFailed
                         /\ cache' = cache]_vars

\* C13's case: one GET filled the key with two products and another GET's
\* write failed, and both answered 200 with the two products
C13_Witness ==
    \E p, q \in Procs :
        /\ GetDone(p) /\ req[p].path = "miss" /\ req[p].cacheWrites = 1
        /\ cache.present /\ cache.text = req[p].written.text
        /\ cache.ttl = 3600
        /\ GetDone(q) /\ req[q].path = "miss" /\ req[q].cacheFailed
        /\ req[q].cacheWrites = 0
        /\ req[p].status = 200 /\ req[q].status = 200
        /\ Len(req[p].seen) = 2 /\ req[q].data = req[p].data

\* C14 as stated: a present entry is removed or replaced only by its
\* expiry, exactly 3600 seconds after the write that produced it, or by the
\* cache write of a create request; no GET request writes the key while it
\* holds an entry.
C14_OnlyExpiryOrCreateReplaces ==
    [][(/\ cache.present
        /\ \/ ~cache'.present
           \/ \E p \in Procs : req'[p].cacheWrites > req[p].cacheWrites)
          => \/ /\ ~cache'.present
                /\ req' = req
                /\ (3600 - cache.ttl) + TickStep = 3600
             \/ \E p \in Procs :
                   /\ req[p].kind = "POST"
                   /\ req'[p].cacheWrites > req[p].cacheWrites]_vars

\* C14 as amended: an entry has between 1 and 3600 seconds to live; a
\* present entry is removed only by Redis (expiry or eviction, in a step
\* that is no request's), and replaced only by the cache write of a create
\* request or of a GET request whose cache read returned no value (miss,
\* read error, Redis unusable at its start); the new entry is the
\* serialisation of that request's own query result with 3600 seconds to
\* live, and a GET that was answered from the cache never writes the key.
C14_ReplacedOnlyByMissOrCreate ==
    /\ [](cache.present => cache.ttl \in 1..3600)
    /\ [][(/\ cache.present
           /\ \/ ~cache'.present
              \/ \E p \in Procs : req'[p].cacheWrites > req[p].cacheWrites)
             => \/ /\ ~cache'.present
                   /\ req' = req
                \/ \E p \in Procs :
                      /\ req'[p].cacheWrites = req[p].cacheWrites + 1
                      /\ req[p].pc \in {"g_cacheSet", "p_cacheSet"}
                      /\ req[p].kind = "GET"
                            => /\ req[p].path \in {"miss", "error",
                                                    "unreachable"}
                               /\ ~req[p].cachedProducts.present
                      /\ cache'.present
                      /\ cache'.text = JSONStringify(req[p].products)
                      /\ cache'.ttl = 3600]_vars

\* C14's case: a GET that missed wrote its one-product result when a create
\* had already refreshed the key with two products, and the key holds the
\* GET's snapshot
C14_Witness ==
    \E p, q \in Procs :
        /\ GetDone(p) /\ req[p].path = "miss" /\ req[p].cacheWrites = 1
        /\ PostDone(q) /\ req[q].path = "refreshed"
        /\ Len(req[p].seen) = 1 /\ Len(req[q].seen) = 2
        /\ cache.present /\ cache.text = req[p].written.text
        /\ cache.ttl = 3600

\* the messages of the two request checks of the POST handler
CheckMessages ==
    {"Name and price are required fields",
     "Price must be a valid positive number"}

\* C15: a POST that has answered has one of the statuses 201, 400, 409,
\* 500, by the kind of its error: 400 for a ValidationError of the store
\* and for a request the handler's own checks turned away (no error thrown,
\* no insert), 409 for a store error with code 11000, 500 for every other
\* error thrown; and 201 exactly when no error reached the catch block and
\* the insert was made, the created product then being in the store.
C15_ErrorStatusByKind ==
    \A p \in Procs :
        PostDone(p) =>
            LET r == req[p]
                e == r.caught
            IN  /\ r.status \in {201, 400, 409, 500}
                /\ e.name = "ValidationError" => r.status = 400
                /\ (e.name # "ValidationError" /\ e.code = 11000)
                      => r.status = 409
                /\ (e # NoError /\ e.name # "ValidationError"
                        /\ e.code # 11000)
                      => r.status = 500 /\ r.error = e.message
                /\ (e = NoError /\ r.storeWrites = 0)
                      => r.status = 400 /\ r.error \in CheckMessages
                /\ r.status = 201 <=> (e = NoError /\ r.storeWrites = 1)
                /\ r.status = 201
                      => /\ r.success
                         /\ \E i \in 1..Len(store) : store[i] = r.savedProduct
                /\ r.status # 201 => ~r.success /\ r.storeWrites = 0

\* C15's case: the insert was rejected with a duplicate key error while the
\* store holds a product, and the request answered 409
C15_Witness ==
    \E p \in Procs :
        /\ PostDone(p) /\ req[p].caught = DuplicateKeyError
        /\ req[p].status = 409
        /\ Len(store) >= 1

\* C16: every product in the store has a name that is not empty after
\* trimming and a price >= 0, and the product a POST created has the
\* trimmed name of the request and, as its description, the trimmed
\* description of the request, or the empty text when none was given.
C16_PersistedProductsValid ==
    /\ \A i \in 1..Len(store) :
          /\ Trim(store[i].name) # << >>
          /\ store[i].price >= 0
    /\ \A p \in Procs :
          (PostDone(p) /\ req[p].status = 201)
              => /\ req[p].savedProduct.name = Trim(req[p].body.name.s)
                 /\ req[p].savedProduct.description
                       = IF req[p].body.description.t = "string"
                         THEN Trim(req[p].body.description.s)
                         ELSE << >>

\* the states startServer can be in: it listens only with the store
\* connected; without the store connection no Redis connection has been
\* attempted and no request has been taken; the process has exited exactly
\* when process.exit(1) was called, once, after the failed connection
StartupOrder ==
    /\ server = "listening" => (mongoConnected /\ exit = << >>)
    /\ ~mongoConnected
          => /\ server \in {"starting", "exited"}
             /\ redisClient = "undefined"
             /\ ~redisReady
             /\ \A p \in Procs : req[p].pc = "idle"
    /\ server = "exited" <=> exit = << 1 >>
    /\ exit \in {<< >>, << 1 >>}
    /\ server = "exited" => ~mongoConnected

\* C17: the server listens only after the store connection was made, and a
\* failed store connection ends the process with code 1 before connectRedis
\* is called and before app.listen: nothing happens after the exit.
C17_ListenOnlyAfterStore ==
    /\ []StartupOrder
    /\ [][server # "exited"]_vars

\* C17's case: the store connection failed and the process has exited
C17_Witness ==
    /\ server = "exited" /\ exit = << 1 >>
    /\ ~mongoConnected /\ redisClient = "undefined"

\* C18: a GET that answered 200 carries one of the two messages; 'Products
\* retrieved from cache' exactly when its cache read returned the value it
\* sends and it made no store query, and 'Products retrieved successfully'
\* otherwise, the data then being the result of its own, single store
\* query.
C18_ProvenanceTruthful ==
    \A p \in Procs :
        (GetDone(p) /\ req[p].status = 200)
            => /\ req[p].message \in {"Products retrieved from cache",
                                       "Products retrieved successfully"}
               /\ req[p].message = "Products retrieved from cache"
                     <=> (req[p].path = "hit" /\ req[p].storeReads = 0)
               /\ req[p].message = "Products retrieved from cache"
                     => /\ req[p].cachedProducts.present
                        /\ req[p].data = StringifyPlain(
                              JSONParse(req[p].cachedProducts.text))
               /\ req[p].message = "Products retrieved successfully"
                     => /\ req[p].storeReads = 1
                        /\ req[p].data = JSONStringify(req[p].seen)

\* C18's case: one GET answered from the cache and another from the store
\* at the same time, each with a product
C18_Witness ==
    \E p, q \in Procs :
        /\ GetDone(p) /\ req[p].message = "Products retrieved from cache"
        /\ GetDone(q) /\ req[q].message = "Products retrieved successfully"
        /\ Len(JSONParse(req[p].data)) >= 1
        /\ Len(req[q].seen) >= 1

\* the three requests the routes are written for
NamedRequests ==
    { << "GET", HealthPath >>, << "GET", ProductsPath >>,
      << "POST", ProductsPath >> }

\* a request that made no store operation and no cache operation
NoBackendUse(r) ==
    /\ r.storeReads = 0 /\ r.storeWrites = 0 /\ r.cacheWrites = 0
    /\ ~r.cachedProducts.present /\ ~r.cacheFailed /\ r.path = "none"

\* C19 as stated: every request whose method and path are not those of
\* GET /health, GET /api/products or POST /api/products is answered 404
\* with success false and 'Route not found', and makes no store operation
\* and no cache operation.
C19_OthersGet404 ==
    \A p \in Procs :
        (req[p].pc # "idle" /\ << req[p].method, req[p].url >> \notin NamedRequests)
            => /\ req[p].pc = "done"
               /\ req[p].status = 404
               /\ ~req[p].success
               /\ req[p].error = "Route not found"
               /\ NoBackendUse(req[p])

\* C19 as amended: in the step in which it arrives, a request with a
\* parsable body whose method is not OPTIONS and which is neither GET or
\* HEAD on /health or /api/products nor POST on /api/products (paths
\* compared without case and without a trailing slash) is answered 404
\* with success false and 'Route not found', without any store or cache
\* operation, and store and cache are unchanged; an OPTIONS request is
\* answered 204, an unparsable body 500, both without store or cache
\* operation; a GET or HEAD on /api/products in any spelling enters the
\* list handler.
C19_UnroutedGet404 ==
    [][\A p \in Procs :
          (req[p].pc = "idle" /\ req'[p].pc # "idle")
              => LET r == req'[p]
                     m == r.method
                     u == r.url
                     onHealth == PathMatches(HealthPath, u)
                     onProducts == PathMatches(ProductsPath, u)
                 IN  /\ (/\ m # "OPTIONS" /\ r.parsed
                         /\ ~(m \in {"GET", "HEAD"} /\ (onHealth \/ onProducts))
                         /\ ~(m = "POST" /\ onProducts))
                           => /\ r.pc = "done" /\ r.status = 404
                              /\ ~r.success
                              /\ r.error = "Route not found"
                              /\ NoBackendUse(r)
                              /\ store' = store /\ cache' = cache
                     /\ m = "OPTIONS"
                           => /\ r.pc = "done" /\ r.status = 204
                              /\ NoBackendUse(r)
                              /\ store' = store /\ cache' = cache
                     /\ ~r.parsed
                           => /\ r.pc = "done" /\ r.status = 500
                              /\ NoBackendUse(r)
                              /\ store' = store /\ cache' = cache
                     /\ (m \in {"GET", "HEAD"} /\ onProducts /\ r.parsed)
                           => r.kind = "GET" /\ r.pc \in {"g_cacheGet", "g_find"}
                     /\ r.status = 404 => r.kind = "notFound"]_vars

\* C19's case: DELETE /api/products answered 404 while the store and the
\* cache hold a product
C19_Witness ==
    \E p \in One :
        /\ req[p].pc = "done" /\ req[p].method = "DELETE"
        /\ req[p].url = ProductsPath
        /\ req[p].status = 404 /\ req[p].error = "Route not found"
        /\ Len(store) >= 1
        /\ cache.present /\ cache.text = JSONStringify(store)

\* C20: a GET whose cache read returned a value that JSON.parse cannot read,
\* and whose store query did not fail, has queried the store once and
\* answers 200 with the store's contents.
C20_UnparsableDegrades ==
    \A p \in Procs :
        (/\ GetDone(p)
         /\ req[p].cachedProducts.present
         /\ ~Parses(req[p].cachedProducts.text)
         /\ ~req[p].storeFailed)
            => /\ req[p].status = 200
               /\ req[p].storeReads = 1
               /\ req[p].data = JSONStringify(req[p].seen)

\* C21: once the Redis connection has failed at startup the handle is null,
\* the process has not exited and the server listens; every GET and POST
\* then runs without a cache read and without a cache write (a POST also
\* without the re-read of the refresh), a GET whose store query succeeded
\* answers 200 with the store's contents and a POST whose insert succeeded
\* answers 201.
C21_NoCacheAfterFailedConnect ==
    redisClient = "null"
        => /\ server = "listening"
           /\ exit = << >>
           /\ ~redisReady
           /\ ~cache.present
           /\ \A p \in Procs :
                 /\ req[p].pc \in {"idle", "g_find", "p_save", "done"}
                 /\ req[p].cacheWrites = 0
                 /\ ~req[p].cachedProducts.present
                 /\ ~req[p].cacheFailed
                 /\ GetDone(p)
                       => /\ req[p].path = "unreachable"
                          /\ req[p].storeReads = 1
                          /\ ~req[p].storeFailed
                                => /\ req[p].status = 200
                                   /\ req[p].data = JSONStringify(req[p].seen)
                 /\ (PostDone(p) /\ req[p].storeWrites = 1)
                       => /\ req[p].status = 201
                          /\ req[p].path = "norefresh"
                          /\ req[p].storeReads = 0

\* C21's case: Redis never connected; a POST created a product and a GET
\* returned it
C21_Witness ==
    /\ redisClient = "null" /\ server = "listening"
    /\ \E p, q \in Procs :
          /\ PostDone(p) /\ req[p].status = 201
          /\ GetDone(q) /\ req[q].status = 200
          /\ Len(req[q].seen) >= 1

\* C22: in every step the store stays as it is or gains exactly one product
\* at its end, all products it held staying in place with their fields;
\* it grows only in the step in which the insert of a POST succeeds (that
\* request's only insert, after which it answers 201), and a request that
\* answers anything but 201 has inserted nothing.
C22_StoreOnlyGrows ==
    /\ [][\/ store' = store
           \/ /\ Len(store') = Len(store) + 1
              /\ SubSeq(store', 1, Len(store)) = store
              /\ \E p \in Procs :
                    /\ req[p].kind = "POST" /\ req[p].pc = "p_save"
                    /\ req[p].storeWrites = 0
                    /\ req'[p].storeWrites = 1
                    /\ req'[p].savedProduct = store'[Len(store')]
                    /\ \A q \in Procs \ {p} : req'[q] = req[q]]_vars
    /\ [](\A p \in Procs :
            /\ req[p].storeWrites = 1
                  => /\ req[p].kind = "POST"
                     /\ req[p].pc = "done" => req[p].status = 201
            /\ (req[p].pc = "done" /\ req[p].status # 201)
                  => req[p].storeWrites = 0
            /\ req[p].storeWrites \in {0, 1})

\* C22's case: the store holds a product, and the request just answered is
\* an unknown route (404)
C22_Witness ==
    \E p \in One :
        /\ req[p].pc = "done" /\ req[p].kind = "notFound"
        /\ req[p].status = 404
        /\ Len(store) = 2

\* the products of a JSON text that parses
Snapshot(text) == JSONParse(text)

\* the product j is held by the store, field for field
InStore(j) == \E i \in 1..Len(store) : ToJSON(store[i]) = j

\* C23: whenever the cache holds a snapshot, every product of the snapshot
\* is held by the store (same id, name, price and description).
C23_CacheWithinStore ==
    (cache.present /\ Parses(cache.text))
        => \A i \in 1..Len(Snapshot(cache.text)) :
              InStore(Snapshot(cache.text)[i])

\* C23's case: the cached snapshot is one product short of a store of two
C23_Witness ==
    /\ cache.present /\ Parses(cache.text)
    /\ Len(Snapshot(cache.text)) = 1
    /\ Len(store) = 2
    /\ \E p \in Procs : PostDone(p) /\ req[p].status = 201

\* C24: a present cache entry never holds an empty list, so the cache is
\* absent while the store is empty; a GET writes the key only with the
\* non-empty list its own store query returned, a POST only with the list of
\* a re-read that includes the product it has just inserted; and a GET that
\* finishes while the store is empty has queried the store.
C24_NoEmptySnapshot ==
    /\ [](/\ cache.present
               => (Parses(cache.text) /\ Len(Snapshot(cache.text)) >= 1)
          /\ (store = << >>) => ~cache.present
          /\ \A p \in Procs :
               (GetDone(p) /\ store = << >>)
                   => /\ req[p].storeReads = 1
                      /\ req[p].path \in {"miss", "unreachable", "error"}
                      /\ req[p].cacheWrites = 0)
    /\ [][\A p \in Procs :
            req'[p].cacheWrites > req[p].cacheWrites
                => /\ cache'.text = JSONStringify(req[p].products)
                   /\ Len(req[p].products) >= 1
                   /\ req[p].storeReads = 1
                   /\ \/ req[p].kind = "GET" /\ req[p].pc = "g_cacheSet"
                      \/ /\ req[p].kind = "POST" /\ req[p].pc = "p_cacheSet"
                         /\ req[p].storeWrites = 1
                         /\ \E i \in 1..Len(req[p].products) :
                               req[p].products[i] = req[p].savedProduct]_vars

\* C24's case: with a usable cache and an empty store, one GET has been
\* answered from the store and the next one is querying the store again
C24_Witness ==
    \E p, q \in Procs :
        /\ GetDone(p) /\ req[p].path = "miss" /\ req[p].status = 200
        /\ req[p].storeReads = 1 /\ req[p].data = JSONStringify(<< >>)
        /\ req[q].kind = "GET" /\ req[q].pc = "g_find"
        /\ req[q].path = "miss"
        /\ store = << >> /\ RedisUsable /\ ~cache.present

\* some request's cache write takes effect in this step
CacheWritten == \E p \in Procs : req'[p].cacheWrites > req[p].cacheWrites

\* C25: a present entry has between 1 and 3600 seconds left; a cache write
\* leaves an entry with 3600 seconds, and in every step without a cache
\* write the entry is untouched, has the same value with less time left, or
\* is gone, a step that completes the get of a GET leaving it untouched; so
\* an entry outlives its last write by at most 3600 seconds.  A GET that
\* found no entry and whose store query succeeded answers 200 with the
\* products the store held at the query.
C25_StalenessBoundedByTTL ==
    /\ [](/\ cache.present => cache.ttl \in 1..TTL
          /\ \A p \in Procs :
               (GetDone(p) /\ req[p].path = "miss" /\ ~req[p].storeFailed)
                   => /\ req[p].status = 200
                      /\ req[p].data = JSONStringify(req[p].seen))
    /\ [][/\ IF CacheWritten
              THEN cache'.present /\ cache'.ttl = TTL
              ELSE \/ cache' = cache
                   \/ ~cache'.present
                   \/ /\ cache.present
                      /\ cache'.text = cache.text
                      /\ cache'.ttl < cache.ttl
           /\ \A p \in Procs :
                (req[p].pc = "g_cacheGet" /\ req'[p] # req[p])
                    => cache' = cache]_vars

\* C25's case: a GET wrote an entry holding one product, the entry is gone
\* again, and a later GET that found no entry has answered with the two
\* products of the store
C25_Witness ==
    \E p, q \in Procs :
        /\ GetDone(p) /\ req[p].cacheWrites = 1 /\ Len(req[p].seen) = 1
        /\ ~cache.present
        /\ GetDone(q) /\ req[q].path = "miss" /\ req[q].status = 200
        /\ req[q].cacheWrites = 0
        /\ req[q].data = JSONStringify(store) /\ Len(store) = 2

\* C26: a request that has a response is finished (nothing it issued is
\* still awaited), and a POST that answered 201 has completed its insert
\* and either issued no refresh (Redis not usable), or had its re-read
\* fail, or had its cache set succeed or fail; the 201 is sent only by the
\* step that ends the insert, the re-read or the set, a POST's cache write
\* takes effect only before its response, and an answered request does
\* nothing more.
C26_CreatedAfterRefreshAttempt ==
    /\ [](\A p \in Procs :
            /\ req[p].status # 0 => req[p].pc = "done"
            /\ (PostDone(p) /\ req[p].status = 201)
                  => /\ req[p].storeWrites = 1
                     /\ \/ /\ req[p].path = "norefresh"
                           /\ req[p].storeReads = 0 /\ req[p].cacheWrites = 0
                           /\ ~req[p].cacheFailed
                        \/ /\ req[p].path = "rereadFailed"
                           /\ req[p].storeReads = 1 /\ req[p].storeFailed
                           /\ req[p].cacheWrites = 0 /\ ~req[p].cacheFailed
                        \/ /\ req[p].path = "refreshed"
                           /\ req[p].storeReads = 1 /\ req[p].cacheWrites = 1
                           /\ ~req[p].cacheFailed
                        \/ /\ req[p].path = "setFailed"
                           /\ req[p].storeReads = 1 /\ req[p].cacheWrites = 0
                           /\ req[p].cacheFailed)
    /\ [][\A p \in Procs :
            /\ (req[p].kind = "POST" /\ req[p].status = 0
                    /\ req'[p].status = 201)
                  => /\ req[p].pc \in {"p_save", "p_find", "p_cacheSet"}
                     /\ req[p].pc = "p_save" => ~RedisUsable
                     /\ req[p].pc = "p_find" => req'[p].storeFailed
            /\ (req[p].kind = "POST"
                    /\ req'[p].cacheWrites > req[p].cacheWrites)
                  => req[p].pc = "p_cacheSet" /\ req[p].status = 0
            /\ req[p].pc = "done"
                  => (req'[p] = req[p] \/ req'[p].pc = "idle")]_vars

\* C26's case: a 201 sent after the insert, the re-read and a cache set
\* that failed, the cache still holding the older snapshot of one product
C26_Witness ==
    \E p \in Procs :
        /\ PostDone(p) /\ req[p].status = 201 /\ req[p].path = "setFailed"
        /\ req[p].cacheFailed /\ Len(req[p].seen) = 2
        /\ cache.present /\ Len(Snapshot(cache.text)) = 1

\* the insert of the POST in slot p was rejected: by the schema's
\* validation, by a duplicate key or by a failure of the store
InsertFailed(p) ==
    /\ PostDone(p)
    /\ req[p].caught
          \in {CastValidationError, DuplicateKeyError, MongoNetworkError}

\* C27: a POST whose insert was rejected has answered 400, 409 or 500
\* without success, has inserted nothing, has made no store query and no
\* cache read or write; and the steps of such a request (taking the request,
\* and the rejection of its insert) leave the store and the cache entry as
\* they are.
C27_FailedInsertTouchesNothing ==
    /\ [](\A p \in Procs :
            InsertFailed(p)
                => /\ req[p].status \in {400, 409, 500}
                   /\ ~req[p].success
                   /\ req[p].storeWrites = 0 /\ req[p].storeReads = 0
                   /\ req[p].cacheWrites = 0 /\ ~req[p].cacheFailed
                   /\ ~req[p].cachedProducts.present
                   /\ ~req[p].written.present
                   /\ req[p].responses = 1)
    /\ [][\A p \in Procs :
            (req'[p] # req[p] /\ req'[p].kind = "POST"
                /\ (req'[p].pc = "p_save" \/ InsertFailed(p)'))
                => store' = store /\ cache' = cache]_vars

\* C27's case: with Redis usable and a snapshot in the cache, the insert
\* failed for a store failure and the request answered 500
C27_Witness ==
    \E p \in One :
        /\ InsertFailed(p) /\ req[p].caught = MongoNetworkError
        /\ req[p].status = 500
        /\ RedisUsable /\ cache.present /\ Len(store) = 1

\* the slot p holds a request to /api/products that has no response yet
Handling(p) == req[p].pc \notin {"idle", "done"}

\* C28: a GET or POST /api/products that is being handled has sent no
\* response, one that is finished has sent exactly one (with a status), and
\* every request being handled finishes, whichever of its cache and store
\* calls fail.
C28_ExactlyOneResponse ==
    /\ [](\A p \in Procs :
            /\ req[p].responses \in {0, 1}
            /\ Handling(p) => (req[p].responses = 0 /\ req[p].status = 0)
            /\ (req[p].pc = "done" /\ req[p].kind \in {"GET", "POST"})
                  => /\ req[p].responses = 1
                     /\ req[p].status \in {200, 201, 400, 409, 500})
    /\ \A p \in Procs : Handling(p) ~> (req[p].pc = "done")

\* C28's case: a GET whose cache read failed and whose store query failed
\* too has sent its one response, a 500
C28_Witness ==
    \E p \in One :
        /\ GetDone(p) /\ req[p].cacheFailed /\ req[p].storeFailed
        /\ req[p].responses = 1 /\ req[p].status = 500

\* the sequence s begins with the sequence t
StartsWith(s, t) == Len(t) <= Len(s) /\ SubSeq(s, 1, Len(t)) = t

\* C29: what a GET /api/products has written to the log is what the same
\* request writes in the run that differs in the value of REDIS_PASSWORD
\* only: for every value of the password, the log begins with the lines the
\* handler writes on entry under that value (Redis being usable or not, as
\* in this run).
C29_OutputSameUnderAnyPassword ==
    \A p \in Procs :
        (req[p].kind = "GET" /\ req[p].pc # "idle")
            => \A password \in Passwords :
                  \E usable \in BOOLEAN :
                      StartsWith(req[p].log, EntryLog(Env(password), usable))

=============================================================================
